---- MODULE Spec2Model ----
(***************************************************************************)
(* stc-json-rpc: the json-rpc-engine middleware of src/src/index.js.       *)
(*                                                                         *)
(* JavaScript values are records tagged by their typeof-like kind, text is *)
(* a sequence of tokens (words and punctuation), so that substring tests   *)
(* (String.prototype.includes), JSON.stringify and JSON.parse are computed *)
(* on text and not assumed.                                                *)
(***************************************************************************)
EXTENDS Integers, Sequences, FiniteSets, TLC

(***************************************************************************)
(* Bounds of the model.                                                    *)
(***************************************************************************)
\* largest explicit opts.maxAttempts a configuration is drawn with
MaxAttemptsOpt == 2

(***************************************************************************)
(* JavaScript values.                                                      *)
(***************************************************************************)
Undef == [t |-> "undefined"]

Null == [t |-> "null"]

Str(s) == [t |-> "string", s |-> s]

Num(n) == [t |-> "number", n |-> n]

NaN == [t |-> "number", nan |-> TRUE]

Arr(a) == [t |-> "array", a |-> a]

Obj(o) == [t |-> "object", o |-> o]

\* the empty object literal {}
EmptyObject == <<>>

\* ToBoolean: what `!x` and `x || y` test
Truthy(v) ==
  CASE v.t = "undefined" -> FALSE
    [] v.t = "null" -> FALSE
    [] v.t = "string" -> v.s # ""
    [] v.t = "number" -> IF "nan" \in DOMAIN v THEN FALSE ELSE v.n # 0
    [] OTHER -> TRUE

\* the typeof operator (typeof null and typeof [] are "object")
TypeOf(v) ==
  CASE v.t = "null" -> "object"
    [] v.t = "array" -> "object"
    [] OTHER -> v.t

\* o[k] on the property map of an object: a missing key reads undefined
Get(o, k) == IF k \in DOMAIN o THEN o[k] ELSE Undef

\* v.k on any value that is neither null nor undefined
GetProp(v, k) == IF v.t = "object" THEN Get(v.o, k) ELSE Undef

\* reading a property of null or undefined throws a TypeError
CanRead(v) == v.t \notin {"undefined", "null"}

(***************************************************************************)
(* Numerals: the decimal text of the numbers that occur.                   *)
(***************************************************************************)
NumeralValue ==
  ("1" :> 1) @@ ("7" :> 7) @@ ("42" :> 42) @@ ("-32000" :> -32000)
  @@ ("-32601" :> -32601) @@ ("-32603" :> -32603)

NumberToString(n) ==
  IF \E s \in DOMAIN NumeralValue : NumeralValue[s] = n
  THEN CHOOSE s \in DOMAIN NumeralValue : NumeralValue[s] = n
  ELSE "NaN"

\* Number(v)
ToNumber(v) ==
  CASE v.t = "number" -> v
    [] v.t = "null" -> Num(0)
    [] v.t = "string" ->
         IF v.s \in DOMAIN NumeralValue THEN Num(NumeralValue[v.s])
         ELSE IF v.s = "" THEN Num(0) ELSE NaN
    [] OTHER -> NaN

\* `${ v }` of a template literal, for the values that occur in one
TemplateString(v) ==
  CASE v.t = "string" -> v.s
    [] v.t = "undefined" -> "undefined"
    [] v.t = "null" -> "null"
    [] v.t = "number" -> IF "nan" \in DOMAIN v THEN "NaN" ELSE NumberToString(v.n)
    [] OTHER -> "[object Object]"

(***************************************************************************)
(* Text.                                                                   *)
(***************************************************************************)
\* String.prototype.includes: phrase occurs as a contiguous run of text
Includes(text, phrase) ==
  \E i \in 0..(Len(text) - Len(phrase)) :
    \A j \in 1..Len(phrase) : text[i + j] = phrase[j]

Quote == "\""

(***************************************************************************)
(* JSON.stringify, for the values a request is made of.                    *)
(***************************************************************************)
RECURSIVE StringifyElems(_, _)
StringifyValue(v) ==
  CASE v.t = "string" -> <<Quote, v.s, Quote>>
    [] v.t = "number" -> IF "nan" \in DOMAIN v THEN <<"null">> ELSE <<NumberToString(v.n)>>
    [] v.t = "null" -> <<"null">>
    [] v.t = "array" -> <<"[">> \o StringifyElems(v.a, 1) \o <<"]">>
    [] OTHER -> <<"null">>

StringifyElems(a, i) ==
  IF i > Len(a) THEN <<>>
  ELSE (IF i > 1 THEN <<",">> ELSE <<>>)
       \o (IF a[i].t \in {"string", "number", "null"}
           THEN StringifyValue(a[i]) ELSE <<"null">>)
       \o StringifyElems(a, i + 1)

\* the members of an object in key order; a member whose value is undefined
\* is left out
RECURSIVE StringifyMembers(_, _, _, _)
StringifyMembers(o, order, i, first) ==
  IF i > Len(order) THEN <<>>
  ELSE LET k == order[i]
           v == Get(o, k)
       IN IF v.t = "undefined"
          THEN StringifyMembers(o, order, i + 1, first)
          ELSE (IF first THEN <<>> ELSE <<",">>)
               \o <<Quote, k, Quote, ":">> \o StringifyValue(v)
               \o StringifyMembers(o, order, i + 1, FALSE)

\* the order in which the keys that occur are inserted into an object
PropertyOrder == <<"id", "jsonrpc", "method", "params", "origin", "extra">>

KeysOf(o) == SelectSeq(PropertyOrder, LAMBDA k : k \in DOMAIN o)

\* JSON.stringify of an object: its own keys, in insertion order
JSONstringify(o) ==
  <<"{">> \o StringifyMembers(o, KeysOf(o), 1, TRUE) \o <<"}">>

(***************************************************************************)
(* JSON.parse: recursive descent over the tokens.                          *)
(***************************************************************************)
ParseFail == [ok |-> FALSE, v |-> Undef, next |-> 0]

ParseOk(v, next) == [ok |-> TRUE, v |-> v, next |-> next]

RECURSIVE ParseValue(_, _)
RECURSIVE ParseElems(_, _, _)
RECURSIVE ParseMembers(_, _, _)

ParseValue(toks, i) ==
  IF i > Len(toks) THEN ParseFail
  ELSE CASE toks[i] = Quote ->
              IF i + 1 <= Len(toks) /\ toks[i + 1] = Quote
              THEN ParseOk(Str(""), i + 2)
              ELSE IF i + 2 <= Len(toks) /\ toks[i + 2] = Quote
                   THEN ParseOk(Str(toks[i + 1]), i + 3)
                   ELSE ParseFail
         [] toks[i] = "null" -> ParseOk(Null, i + 1)
         [] toks[i] \in DOMAIN NumeralValue ->
              ParseOk(Num(NumeralValue[toks[i]]), i + 1)
         [] toks[i] = "[" ->
              IF i + 1 <= Len(toks) /\ toks[i + 1] = "]"
              THEN ParseOk(Arr(<<>>), i + 2)
              ELSE ParseElems(toks, i + 1, <<>>)
         [] toks[i] = "{" ->
              IF i + 1 <= Len(toks) /\ toks[i + 1] = "}"
              THEN ParseOk(Obj(EmptyObject), i + 2)
              ELSE ParseMembers(toks, i + 1, EmptyObject)
         [] OTHER -> ParseFail

\* elements after "[" or ",": value, then "," or "]"
ParseElems(toks, i, acc) ==
  LET r == ParseValue(toks, i)
  IN IF ~r.ok \/ r.next > Len(toks) THEN ParseFail
     ELSE IF toks[r.next] = "]" THEN ParseOk(Arr(Append(acc, r.v)), r.next + 1)
     ELSE IF toks[r.next] = "," THEN ParseElems(toks, r.next + 1, Append(acc, r.v))
     ELSE ParseFail

\* members after "{" or ",": "key" : value, then "," or "}"; a repeated key
\* keeps its last value
ParseMembers(toks, i, acc) ==
  IF i + 3 > Len(toks) \/ toks[i] # Quote \/ toks[i + 2] # Quote \/ toks[i + 3] # ":"
  THEN ParseFail
  ELSE LET r == ParseValue(toks, i + 4)
           o == (toks[i + 1] :> r.v) @@ acc
       IN IF ~r.ok \/ r.next > Len(toks) THEN ParseFail
          ELSE IF toks[r.next] = "}" THEN ParseOk(Obj(o), r.next + 1)
          ELSE IF toks[r.next] = "," THEN ParseMembers(toks, r.next + 1, o)
          ELSE ParseFail

\* JSON.parse(text): the value, or ok = FALSE where it throws a SyntaxError
JSONparse(text) ==
  LET r == ParseValue(text, 1)
  IN IF r.ok /\ r.next = Len(text) + 1 THEN r ELSE ParseFail

(***************************************************************************)
(* Errors.  An error is its constructor name, its code property (undefined *)
(* when it has none) and its message text.                                 *)
(***************************************************************************)
MkError(name, code, message) == [name |-> name, code |-> code, message |-> message]

NoError == MkError("none", Undef, <<>>)

MethodNotFoundMessage ==
  <<"The", "method", "does", "not", "exist", "/", "is", "not", "available", ".">>

InternalMessage == <<"Internal", "JSON-RPC", "error", ".">>

\* ethErrors.rpc.methodNotFound()
methodNotFound == MkError("EthereumRpcError", Num(-32601), MethodNotFoundMessage)

\* ethErrors.rpc.internal(msg): an empty msg falls back to the default message
createInternalError(msg) ==
  MkError("EthereumRpcError", Num(-32603), IF msg = <<>> THEN InternalMessage ELSE msg)

RatelimitMessage == <<"Request", "is", "being", "rate", "limited", ".">>

TimeoutMessage ==
  <<"Gateway", "timeout", ".", "The", "request", "took", "too", "long", "to",
    "process", ".", "This", "can", "happen", "when", "querying", "logs", "over",
    "too", "wide", "a", "block", "range", ".">>

createTimeoutError == createInternalError(TimeoutMessage)

\* the rate-limit error built with the message of the timeout error
createRatelimitErrorAsTimeout == createInternalError(TimeoutMessage)

createRatelimitError == createInternalError(RatelimitMessage)

\* the parse failure turned into an internal error
SyntaxErrorAsInternal(text) ==
  MkError("EthereumRpcError", Num(-32603), <<"Unexpected", "token", "in", "JSON">>)

\* what JSON.parse throws on text that is not JSON
SyntaxErrorOf(text) ==
  MkError("SyntaxError", Undef, <<"Unexpected", "token", "in", "JSON">>)

\* reading a property of null or undefined
TypeErrorOf(what) ==
  MkError("TypeError", Undef, <<"Cannot", "read", "properties", "of", what>>)

\* node-fetch's rejection for a system error: code is the errno name and the
\* message ends with the reason, which names it too
FetchError(errno) ==
  MkError("FetchError", Str(errno),
          <<"request", "to", "url", "failed", ",", "reason", ":", errno>>)

\* err.toString(): an EthereumRpcError prints its serialized {code, message},
\* every other error prints "<name>: <message>"
ErrToString(err) ==
  IF err.name = "EthereumRpcError"
  THEN <<"{", Quote, "code", Quote, ":", TemplateString(err.code), ",",
         Quote, "message", Quote, ":", Quote>> \o err.message \o <<Quote, "}">>
  ELSE <<err.name, ":">> \o err.message

RETRIABLE_ERRORS ==
  << <<"Gateway", "timeout">>, <<"ETIMEDOUT">>, <<"ECONNRESET">>, <<"SyntaxError">> >>

\* retriability decided by the kind of error: every internal error is retried
isRetriableErrorByKind(err) ==
  \/ err.name = "EthereumRpcError" /\ err.code = Num(-32603)
  \/ err.name \in {"FetchError", "SyntaxError"}

isRetriableError(err) ==
  LET errMessage == ErrToString(err)
  IN \E p \in 1..Len(RETRIABLE_ERRORS) : Includes(errMessage, RETRIABLE_ERRORS[p])

ExhaustedPrefix ==
  <<"Provider", "-", "cannot", "complete", "request", ".", "All", "retries",
    "exhausted", ".", "\n", "Original", "Error", ":", "\n">>

\* new Error(errMsg) of the last attempt
retriesExhaustedErr(err) ==
  MkError("Error", Undef, ExhaustedPrefix \o ErrToString(err) \o <<"\n", "\n">>)

(***************************************************************************)
(* Configuration resolver: the body of createInfuraMiddleware before the   *)
(* handler is returned.                                                    *)
(***************************************************************************)
DefaultMaxAttempts == 5

DefaultNetwork == Str("mainnet")

\* opts.network || 'mainnet'
ResolveNetwork(o) == IF Truthy(o.network) THEN o.network ELSE DefaultNetwork

\* opts.maxAttempts || 5
ResolveMaxAttempts(o) ==
  IF Truthy(o.maxAttempts) THEN o.maxAttempts ELSE Num(DefaultMaxAttempts)

\* headers = {} is the default of the destructuring, taken for undefined only
ResolveHeaders(o) == IF o.headers = Undef THEN Obj(EmptyObject) ELSE o.headers

InvalidProjectId(o) == ~Truthy(o.projectId) \/ TypeOf(o.projectId) # "string"

InvalidHeaders(o) ==
  ~Truthy(ResolveHeaders(o)) \/ TypeOf(ResolveHeaders(o)) # "object"

InvalidMaxAttempts(o) == ~Truthy(ResolveMaxAttempts(o))

\* the validation: the error construction throws, or "none"
ValidateOptions(o) ==
  IF InvalidProjectId(o) THEN "projectId"
  ELSE IF InvalidHeaders(o) THEN "headers"
  ELSE IF InvalidMaxAttempts(o) THEN "maxAttempts"
  ELSE "none"

NoConfig ==
  [network |-> Undef, maxAttempts |-> 0, projectId |-> Undef,
   headers |-> EmptyObject, source |-> Undef]

\* the values the returned handler closes over
ResolveConfig(o) ==
  [network |-> ResolveNetwork(o), maxAttempts |-> ResolveMaxAttempts(o).n,
   projectId |-> o.projectId, headers |-> ResolveHeaders(o).o, source |-> o.source]

(***************************************************************************)
(* Request adapter.                                                        *)
(***************************************************************************)
RestNetworks == {Str("devnet")}

\* ['devnet'].includes(network) of fetchConfigFromReq
IsRestRequest(network) == network \in RestNetworks

\* the list of performFetch grown by a network the adapter does not know
IsRestResponseOtherList(network) == network \in {Str("devnet"), Str("barnard")}

\* ['devnet'].includes(network) of performFetch
IsRestResponse(network) == network \in RestNetworks

NoCall ==
  [url |-> "", method |-> "", headers |-> EmptyObject, hasBody |-> FALSE, body |-> <<>>]

\* normalizeReq forgotten: the request is sent as it came
normalizeReqIdentity(r) == r

\* the object literal of normalizeReq: the four keys, whatever req holds
normalizeReq(r) == [k \in {"id", "jsonrpc", "method", "params"} |-> Get(r, k)]

\* req.origin || 'internal'
RequestOrigin(r) == IF Truthy(Get(r, "origin")) THEN Get(r, "origin") ELSE Str("internal")

FixedHeaders ==
  ("Accept" :> Str("application/json")) @@ ("Content-Type" :> Str("application/json"))

\* Object.assign with its sources swapped: the extra headers win
RequestHeadersExtraWins(extraHeaders, r, source) ==
  LET headers == extraHeaders @@ FixedHeaders
  IN IF Truthy(source)
     THEN ("Source" :> Str(TemplateString(source) \o "/" \o TemplateString(RequestOrigin(r))))
          @@ headers
     ELSE headers

\* Object.assign({}, extraHeaders, {...}), then the Source header
RequestHeaders(extraHeaders, r, source) ==
  LET headers == FixedHeaders @@ extraHeaders
  IN IF Truthy(source)
     THEN ("Source" :> Str(TemplateString(source) \o "/" \o TemplateString(RequestOrigin(r))))
          @@ headers
     ELSE headers

\* req.params[0]
FirstParam(r) ==
  LET params == Get(r, "params")
  IN IF params.t = "array" /\ Len(params.a) >= 1 THEN params.a[1] ELSE Undef

RestBaseUrl(network) == "https://fullnode." \o TemplateString(network) \o ".aptoslabs.com/v1/"

\* the sub-path one `if` of the REST branch appends to fetchUrl
RestAppend(r, name, fetchUrl, prefix, suffix) ==
  IF Get(r, "method") = Str(name)
  THEN fetchUrl \o prefix \o TemplateString(FirstParam(r)) \o suffix
  ELSE fetchUrl

\* the second `if` also taken for state.list_resource
RestUrlTwoPaths(network, r) ==
  LET u0 == RestBaseUrl(network)
      u1 == RestAppend(r, "state.list_resource", u0, "accounts/", "/resources")
      u2 == IF Get(r, "method") \in {Str("getAccount"), Str("state.list_resource")}
            THEN u1 \o "accounts/" \o TemplateString(FirstParam(r)) ELSE u1
  IN RestAppend(r, "chain.get_transaction_info", u2, "transactions/by_hash/", "")

\* the three `if`s in order, each on the fetchUrl the one before left
RestUrl(network, r) ==
  LET u0 == RestBaseUrl(network)
      u1 == RestAppend(r, "state.list_resource", u0, "accounts/", "/resources")
      u2 == RestAppend(r, "getAccount", u1, "accounts/", "")
  IN RestAppend(r, "chain.get_transaction_info", u2, "transactions/by_hash/", "")

RestPathMethods == {"state.list_resource", "getAccount", "chain.get_transaction_info"}

\* req.params[0] is evaluated, and req.params is null or undefined
RestParamsThrow(r) ==
  /\ \E m \in RestPathMethods : Get(r, "method") = Str(m)
  /\ ~CanRead(Get(r, "params"))

JsonRpcUrl(network) == "https://" \o TemplateString(network) \o "-seed.starcoin.org"

fetchConfigFromReq(network, projectId, extraHeaders, r, source) ==
  LET headers == RequestHeaders(extraHeaders, r, source)
  IN IF IsRestRequest(network)
     THEN IF RestParamsThrow(r)
          THEN [threw |-> TRUE, err |-> TypeErrorOf("undefined"), call |-> NoCall]
          ELSE [threw |-> FALSE, err |-> NoError,
                call |-> [url |-> RestUrl(network, r), method |-> "GET",
                          headers |-> headers, hasBody |-> FALSE, body |-> <<>>]]
     ELSE [threw |-> FALSE, err |-> NoError,
           call |-> [url |-> JsonRpcUrl(network), method |-> "POST",
                     headers |-> headers, hasBody |-> TRUE,
                     body |-> JSONstringify(normalizeReq(r))]]

(***************************************************************************)
(* performFetch after the response and its text have arrived.              *)
(***************************************************************************)
\* response.ok
ResponseOk(status) == status >= 200 /\ status <= 299

\* the switch without its case 405
StatusErrorNo405(status, rawData) ==
  CASE status = 429 -> createRatelimitError
    [] status = 503 -> createTimeoutError
    [] status = 504 -> createTimeoutError
    [] OTHER -> createInternalError(rawData)

\* the switch on response.status of a response that is not ok
StatusError(status, rawData) ==
  CASE status = 405 -> methodNotFound
    [] status = 429 -> createRatelimitError
    [] status = 503 -> createTimeoutError
    [] status = 504 -> createTimeoutError
    [] OTHER -> createInternalError(rawData)

\* the outcome of the rest of performFetch: it threw err or it returned, and
\* res is the holder as it left it
Threw(err, resv, data) ==
  [threw |-> TRUE, err |-> err, res |-> resv, branch |-> "none", data |-> data]

Wrote(resv, branch, data) ==
  [threw |-> FALSE, err |-> NoError, res |-> resv, branch |-> branch, data |-> data]

\* the switch with block_height copied as it came, without Number()
RestNormalizeNoNumber(network, r, resv, data) ==
  CASE Get(r, "method") = Str("chain.id") ->
         IF ~CanRead(data) THEN Threw(TypeErrorOf("null"), resv, data)
         ELSE Wrote(("result" :> Obj(("id" :> GetProp(data, "chain_id"))
                                     @@ ("name" :> network))) @@ resv, "rest", data)
    [] Get(r, "method") = Str("chain.info") ->
         IF ~CanRead(data) THEN Threw(TypeErrorOf("null"), resv, data)
         ELSE Wrote(("result" :> Obj("head" :> Obj("number" :>
                        GetProp(data, "block_height")))) @@ resv, "rest", data)
    [] OTHER -> Wrote(("result" :> data) @@ resv, "rest", data)

\* the switch on req.method of the REST branch
RestNormalize(network, r, resv, data) ==
  CASE Get(r, "method") = Str("chain.id") ->
         IF ~CanRead(data) THEN Threw(TypeErrorOf("null"), resv, data)
         ELSE Wrote(("result" :> Obj(("id" :> GetProp(data, "chain_id"))
                                     @@ ("name" :> network))) @@ resv, "rest", data)
    [] Get(r, "method") = Str("chain.info") ->
         IF ~CanRead(data) THEN Threw(TypeErrorOf("null"), resv, data)
         ELSE Wrote(("result" :> Obj("head" :> Obj("number" :>
                        ToNumber(GetProp(data, "block_height"))))) @@ resv, "rest", data)
    [] OTHER -> Wrote(("result" :> data) @@ resv, "rest", data)

\* the error copied only when there is no result
JsonRpcNormalizeEither(resv, data) ==
  IF ~CanRead(data) THEN Threw(TypeErrorOf("null"), resv, data)
  ELSE IF GetProp(data, "result") # Undef
       THEN Wrote(("result" :> GetProp(data, "result")) @@ resv, "jsonrpc", data)
       ELSE Wrote(("error" :> GetProp(data, "error")) @@ resv, "jsonrpc", data)

\* an upstream error thrown instead of copied
JsonRpcNormalizeThrowsOnError(resv, data) ==
  IF ~CanRead(data) THEN Threw(TypeErrorOf("null"), resv, data)
  ELSE IF GetProp(data, "error") # Undef
       THEN Threw(createInternalError(<<TemplateString(GetProp(GetProp(data, "error"), "message"))>>),
                  resv, data)
       ELSE Wrote(("error" :> GetProp(data, "error"))
                  @@ ("result" :> GetProp(data, "result")) @@ resv, "jsonrpc", data)

\* res.result = data.result; res.error = data.error
JsonRpcNormalize(resv, data) ==
  IF ~CanRead(data) THEN Threw(TypeErrorOf("null"), resv, data)
  ELSE Wrote(("error" :> GetProp(data, "error"))
             @@ ("result" :> GetProp(data, "result")) @@ resv, "jsonrpc", data)

\* the status error stored in res.error before it is thrown
PerformFetchTailWritesError(network, r, resv, status, rawData) ==
  IF ~ResponseOk(status)
  THEN Threw(StatusError(status, rawData),
             ("error" :> Obj("code" :> StatusError(status, rawData).code)) @@ resv, Undef)
  ELSE LET parsed == JSONparse(rawData)
       IN IF ~parsed.ok THEN Threw(SyntaxErrorOf(rawData), resv, Undef)
          ELSE IF IsRestResponse(network)
               THEN RestNormalize(network, r, resv, parsed.v)
               ELSE JsonRpcNormalize(resv, parsed.v)

\* lines 80-118: what performFetch does with a status and the body text
PerformFetchTail(network, r, resv, status, rawData) ==
  IF ~ResponseOk(status) THEN Threw(StatusError(status, rawData), resv, Undef)
  ELSE LET parsed == JSONparse(rawData)
       IN IF ~parsed.ok THEN Threw(SyntaxErrorOf(rawData), resv, Undef)
          ELSE IF IsRestResponse(network)
               THEN RestNormalize(network, r, resv, parsed.v)
               ELSE JsonRpcNormalize(resv, parsed.v)

(***************************************************************************)
(* The retry loop of the handler.  A task is one activation of the handler:*)
(* pc is where it is suspended ("fetch": await fetch, "text": await        *)
(* response.text(), "delay": await timeout) or how it ended; status and    *)
(* data are the locals response.status and data of the attempt under way,  *)
(* last is how that attempt ended and caught the err of its catch block;   *)
(* fetches and delays count the calls of fetch and of timeout.             *)
(***************************************************************************)
RetryDelay == 1000

NoTask ==
  [pc |-> "idle", attempt |-> 0, status |-> 0, data |-> Undef, last |-> "none",
   call |-> NoCall, caught |-> NoError, raised |-> NoError, fetches |-> 0,
   delays |-> 0, timer |-> 0, branch |-> "none"]

\* attempt <= maxAttempts
LoopContinues(attempt, maxAttempts) == attempt <= maxAttempts

\* the attempt that is about to start counted as made
RemainingAttemptsOffByOne(maxAttempts, attempt) == maxAttempts - attempt - 1

\* maxAttempts - attempt
RemainingAttempts(maxAttempts, attempt) == maxAttempts - attempt

\* the catch block with the test of the remaining attempts first
CaughtExhaustFirst(t, cfg, err) ==
  IF RemainingAttempts(cfg.maxAttempts, t.attempt) = 0
  THEN [t EXCEPT !.pc = "raised", !.caught = err, !.raised = retriesExhaustedErr(err)]
  ELSE IF ~isRetriableError(err)
       THEN [t EXCEPT !.pc = "raised", !.caught = err, !.raised = err]
       ELSE [t EXCEPT !.pc = "delay", !.caught = err, !.delays = @ + 1,
                      !.timer = RetryDelay]

\* the catch block with a delay that grows with the attempt
CaughtBackoff(t, cfg, err) ==
  IF ~isRetriableError(err)
  THEN [t EXCEPT !.pc = "raised", !.caught = err, !.raised = err]
  ELSE IF RemainingAttempts(cfg.maxAttempts, t.attempt) = 0
       THEN [t EXCEPT !.pc = "raised", !.caught = err, !.raised = retriesExhaustedErr(err)]
       ELSE [t EXCEPT !.pc = "delay", !.caught = err, !.delays = @ + 1,
                      !.timer = RetryDelay * t.attempt]

\* the catch block
Caught(t, cfg, err) ==
  IF ~isRetriableError(err)
  THEN [t EXCEPT !.pc = "raised", !.caught = err, !.raised = err]
  ELSE IF RemainingAttempts(cfg.maxAttempts, t.attempt) = 0
       THEN [t EXCEPT !.pc = "raised", !.caught = err, !.raised = retriesExhaustedErr(err)]
       ELSE [t EXCEPT !.pc = "delay", !.caught = err, !.delays = @ + 1,
                      !.timer = RetryDelay]

\* performFetch returned and the loop goes on to the next attempt
BreakMissing(t, cfg, r, branch) ==
  LET t1 == [t EXCEPT !.attempt = @ + 1, !.branch = branch]
  IN IF ~LoopContinues(t1.attempt, cfg.maxAttempts)
     THEN [t1 EXCEPT !.pc = "returned"]
     ELSE [t1 EXCEPT !.pc = "fetch", !.fetches = @ + 1]

\* performFetch returned: break, and the handler returns
Break(t, cfg, r, branch) == [t EXCEPT !.pc = "returned", !.branch = branch]

\* the loop test, then performFetch up to its first await
BeginAttempt(t, cfg, r) ==
  IF ~LoopContinues(t.attempt, cfg.maxAttempts)
  THEN [t EXCEPT !.pc = "returned"]
  ELSE LET fc == fetchConfigFromReq(cfg.network, cfg.projectId, cfg.headers, r, cfg.source)
           t1 == [t EXCEPT !.status = 0, !.data = Undef, !.last = "none",
                           !.caught = NoError]
       IN IF fc.threw THEN Caught([t1 EXCEPT !.last = "adapter"], cfg, fc.err)
          ELSE [t1 EXCEPT !.pc = "fetch", !.call = fc.call, !.fetches = @ + 1]

(***************************************************************************)
(* Inputs.                                                                 *)
(***************************************************************************)
NetworkOpts == {Undef, Str("devnet"), Str("barnard")}

ProjectIdOpts == {Undef, Str(""), Num(7), Str("pid")}

ExtraHeaders == ("Accept" :> Str("text/html")) @@ ("X-Key" :> Str("k"))

HeadersOpts == {Undef, Null, Str("h"), Obj(ExtraHeaders)}

MaxAttemptsOpts == {Undef} \cup {Num(n) : n \in -1..MaxAttemptsOpt}

SourceOpts == {Undef, Str("wallet")}

NoOpts ==
  [network |-> Undef, maxAttempts |-> Undef, source |-> Undef,
   projectId |-> Undef, headers |-> Undef]

OptsSet ==
  [network : NetworkOpts, maxAttempts : MaxAttemptsOpts, source : SourceOpts,
   projectId : ProjectIdOpts, headers : HeadersOpts]

Methods ==
  {"state.list_resource", "getAccount", "chain.get_transaction_info",
   "chain.id", "chain.info", "chain.get_block_by_number"}

\* a request: params absent, empty or with one element; with or without the
\* fields origin and extra that are not part of the call
BaseRequest(m) == [id |-> Num(1), jsonrpc |-> Str("2.0"), method |-> Str(m)]

ParamsVariants == {EmptyObject, "params" :> Arr(<<>>), "params" :> Arr(<<Str("0xabc")>>)}

ExtraVariants == {EmptyObject, ("origin" :> Str("dapp.example")) @@ ("extra" :> Str("x"))}

Requests ==
  {BaseRequest(m) @@ p @@ e : m \in Methods, p \in ParamsVariants, e \in ExtraVariants}

\* the response object the engine hands over, fresh or already written to
FreshHolder == [id |-> Num(1), jsonrpc |-> Str("2.0")]

Holders ==
  {FreshHolder,
   FreshHolder @@ ("result" :> Str("stale")) @@ ("error" :> Obj("code" :> Num(-32000)))}

Statuses == {200, 404, 405, 429, 503, 504}

Errnos == {"ETIMEDOUT", "ECONNRESET", "ENOTFOUND"}

QuotedText(s) == <<Quote, s, Quote>>

MemberText(k, v) == QuotedText(k) \o <<":">> \o v

UpstreamErrorText ==
  <<"{">> \o MemberText("code", <<"-32000">>) \o <<",">>
  \o MemberText("message", QuotedText("ETIMEDOUT")) \o <<"}">>

\* the body texts a response is drawn with
BodyTexts ==
  { <<>>,
    <<"oops">>,
    <<"<html>", "504", "Gateway", "timeout", "</html>">>,
    <<"null">>,
    <<"{", "}">>,
    <<"{">> \o MemberText("result", QuotedText("0x1")),
    <<"{">> \o MemberText("result", QuotedText("0x1")) \o <<"}">>,
    <<"{">> \o MemberText("error", UpstreamErrorText) \o <<"}">>,
    <<"{">> \o MemberText("result", QuotedText("0x1")) \o <<",">>
            \o MemberText("error", UpstreamErrorText) \o <<"}">>,
    <<"{">> \o MemberText("chain_id", <<"7">>) \o <<",">>
            \o MemberText("block_height", QuotedText("42")) \o <<"}">> }

(***************************************************************************)
(* State.                                                                  *)
(***************************************************************************)
VARIABLES
  opts,     \* the argument of createInfuraMiddleware, until it has returned
  phase,    \* "init", then "constructed" or "threw"
  config,   \* what the handler closes over
  callers,  \* the invocations of the handler that may be made
  req,      \* req of each invocation
  res,      \* res of each invocation
  res0,     \* res as it was when the handler was invoked
  task      \* the activation of the handler for each invocation

vars == <<opts, phase, config, callers, req, res, res0, task>>

Invocations == {1, 2}

Init ==
  /\ opts \in OptsSet
  /\ phase = "init"
  /\ config = NoConfig
  /\ callers = {1}
  /\ req = [i \in Invocations |-> EmptyObject]
  /\ res = [i \in Invocations |-> EmptyObject]
  /\ res0 = [i \in Invocations |-> EmptyObject]
  /\ task = [i \in Invocations |-> NoTask]

\* createInfuraMiddleware(opts): it returns the handler or throws, and the
\* argument is not kept
Construct ==
  /\ phase = "init"
  /\ IF ValidateOptions(opts) = "none"
     THEN phase' = "constructed" /\ config' = ResolveConfig(opts)
     ELSE phase' = "threw" /\ config' = config
  /\ opts' = NoOpts
  /\ UNCHANGED <<callers, req, res, res0, task>>

\* the engine calls the handler: the loop runs up to the first await
Invoke(i, r, h) ==
  /\ phase = "constructed"
  /\ i \in callers
  /\ task[i].pc = "idle"
  /\ req' = [req EXCEPT ![i] = r]
  /\ res' = [res EXCEPT ![i] = h]
  /\ res0' = [res0 EXCEPT ![i] = h]
  /\ task' = [task EXCEPT ![i] = BeginAttempt([NoTask EXCEPT !.attempt = 1], config, r)]
  /\ UNCHANGED <<opts, phase, config, callers>>

\* fetch resolves with the status line and headers of a response
FetchResolve(i, status) ==
  /\ task[i].pc = "fetch"
  /\ task' = [task EXCEPT ![i] = [@ EXCEPT !.pc = "text", !.status = status]]
  /\ UNCHANGED <<opts, phase, config, callers, req, res, res0>>

\* fetch rejects with a system error
FetchReject(i, errno) ==
  /\ task[i].pc = "fetch"
  /\ task' = [task EXCEPT ![i] =
                Caught([@ EXCEPT !.last = "fetchRejected"], config, FetchError(errno))]
  /\ UNCHANGED <<opts, phase, config, callers, req, res, res0>>

\* response.text() resolves, with one holder shared by the invocations in
\* progress
TextResolveSharedHolder(i, rawData) ==
  /\ task[i].pc = "text"
  /\ LET out == PerformFetchTail(config.network, req[i], res[i], task[i].status, rawData)
     IN /\ res' = [j \in Invocations |-> IF task[j].pc # "idle" THEN out.res ELSE res[j]]
        /\ task' = [task EXCEPT ![i] =
                      LET t == [@ EXCEPT !.last = "response", !.data = out.data]
                      IN IF out.threw THEN Caught(t, config, out.err)
                         ELSE Break(t, config, req[i], out.branch)]
  /\ UNCHANGED <<opts, phase, config, callers, req, res0>>

\* response.text() resolves: the rest of performFetch runs, then break or catch
TextResolve(i, rawData) ==
  /\ task[i].pc = "text"
  /\ LET out == PerformFetchTail(config.network, req[i], res[i], task[i].status, rawData)
     IN /\ res' = [res EXCEPT ![i] = out.res]
        /\ task' = [task EXCEPT ![i] =
                      LET t == [@ EXCEPT !.last = "response", !.data = out.data]
                      IN IF out.threw THEN Caught(t, config, out.err)
                         ELSE Break(t, config, req[i], out.branch)]
  /\ UNCHANGED <<opts, phase, config, callers, req, res0>>

\* response.text() rejects: the connection broke while the body was read
TextReject(i, errno) ==
  /\ task[i].pc = "text"
  /\ task' = [task EXCEPT ![i] =
                Caught([@ EXCEPT !.last = "textRejected"], config, FetchError(errno))]
  /\ UNCHANGED <<opts, phase, config, callers, req, res, res0>>

\* the timer of timeout(1000) fires: attempt++, the loop test, the next attempt
TimeoutFire(i) ==
  /\ task[i].pc = "delay"
  /\ task' = [task EXCEPT ![i] =
                BeginAttempt([@ EXCEPT !.attempt = @ + 1, !.timer = 0], config, req[i])]
  /\ UNCHANGED <<opts, phase, config, callers, req, res, res0>>

Next ==
  \/ Construct
  \/ \E i \in Invocations, r \in Requests, h \in Holders : Invoke(i, r, h)
  \/ \E i \in Invocations, status \in Statuses : FetchResolve(i, status)
  \/ \E i \in Invocations, errno \in Errnos : FetchReject(i, errno)
  \/ \E i \in Invocations, rawData \in BodyTexts : TextResolve(i, rawData)
  \/ \E i \in Invocations, errno \in Errnos : TextReject(i, errno)
  \/ \E i \in Invocations : TimeoutFire(i)

Spec == Init /\ [][Next]_vars

(***************************************************************************)
(* Two invocations of one handler in progress at the same time.            *)
(***************************************************************************)
ConcMaxAttempts == 2

ConcOpts ==
  {[NoOpts EXCEPT !.network = n, !.maxAttempts = Num(ConcMaxAttempts),
                  !.projectId = Str("pid"), !.source = Str("wallet")] :
     n \in {Str("devnet"), Str("barnard")}}

ConcRequests ==
  {BaseRequest("chain.id"),
   BaseRequest("getAccount") @@ ("params" :> Arr(<<Str("0xabc")>>))
     @@ ("origin" :> Str("dapp.example"))}

ConcStatuses == {200, 405, 503}

ConcErrnos == {"ECONNRESET", "ENOTFOUND"}

ConcBodyTexts ==
  { <<"oops">>,
    <<"{">> \o MemberText("result", QuotedText("0x1")) \o <<"}">>,
    <<"{">> \o MemberText("chain_id", <<"7">>) \o <<",">>
            \o MemberText("error", UpstreamErrorText) \o <<"}">> }

InitConc ==
  /\ opts \in ConcOpts
  /\ phase = "init"
  /\ config = NoConfig
  /\ callers = Invocations
  /\ req = [i \in Invocations |-> EmptyObject]
  /\ res = [i \in Invocations |-> EmptyObject]
  /\ res0 = [i \in Invocations |-> EmptyObject]
  /\ task = [i \in Invocations |-> NoTask]

NextConc ==
  \/ Construct
  \/ \E i \in Invocations, r \in ConcRequests, h \in Holders : Invoke(i, r, h)
  \/ \E i \in Invocations, status \in ConcStatuses : FetchResolve(i, status)
  \/ \E i \in Invocations, errno \in ConcErrnos : FetchReject(i, errno)
  \/ \E i \in Invocations, rawData \in ConcBodyTexts : TextResolve(i, rawData)
  \/ \E i \in Invocations, errno \in ConcErrnos : TextReject(i, errno)
  \/ \E i \in Invocations : TimeoutFire(i)

SpecConc == InitConc /\ [][NextConc]_vars

TypeOK ==
  /\ phase \in {"init", "constructed", "threw"}
  /\ \A i \in Invocations :
       task[i].pc \in {"idle", "fetch", "text", "delay", "returned", "raised"}

(***************************************************************************)
(* Properties.                                                             *)
(***************************************************************************)
\* the attempt of invocation i that just ended received this HTTP status and
\* its body was read
Received(i, status) == task[i].last = "response" /\ task[i].status = status

\* a task that has raised or returned takes no further step
Terminal ==
  \A i \in Invocations :
    task[i].pc \in {"raised", "returned"} => (task'[i] = task[i] /\ res'[i] = res[i])

\* the counters of a task: attempt k is HTTP call k and follows k - 1 delays
Sequential(i) ==
  /\ task[i].pc \in {"fetch", "text"} =>
       /\ task[i].fetches = task[i].attempt
       /\ task[i].delays = task[i].attempt - 1
       /\ 1 <= task[i].attempt /\ task[i].attempt <= config.maxAttempts
  /\ task[i].pc = "delay" =>
       /\ task[i].fetches = task[i].attempt
       /\ task[i].delays = task[i].attempt
       /\ task[i].attempt < config.maxAttempts

Markers == {<<"Gateway", "timeout">>, <<"ETIMEDOUT">>, <<"ECONNRESET">>, <<"SyntaxError">>}

IsExhausted(err) ==
  /\ err.name = "Error"
  /\ Includes(err.message, <<"All", "retries", "exhausted">>)

EmbedsTimeout(err) ==
  Includes(err.message,
           <<"Original", "Error", ":", "\n", "{", Quote, "code", Quote, ":", "-32603", ",",
             Quote, "message", Quote, ":", Quote, "Gateway", "timeout", ".", "The",
             "request", "took", "too", "long", "to", "process", ".">>)

\* C1: an attempt that receives 503 or 504 is HTTP call number attempt <=
\* maxAttempts; before the last one it leads to the delay, after which exactly
\* one more call is made; on attempt maxAttempts it raises the 'retries
\* exhausted' error whose message embeds the printed Gateway-timeout error,
\* after exactly maxAttempts HTTP calls; nothing follows the raise.
C1_ExactlyMaxAttemptsOn503 ==
  /\ [](\A i \in Invocations :
          /\ Sequential(i)
          /\ (Received(i, 503) \/ Received(i, 504)) =>
               /\ task[i].pc \in {"delay", "raised"}
               /\ task[i].fetches = task[i].attempt
               /\ task[i].pc = "delay" <=> task[i].attempt < config.maxAttempts
               /\ task[i].pc = "raised" =>
                    /\ task[i].fetches = config.maxAttempts
                    /\ task[i].delays = config.maxAttempts - 1
                    /\ IsExhausted(task[i].raised)
                    /\ EmbedsTimeout(task[i].raised))
  /\ [][Terminal]_vars

\* retried up to the bound, and the last 503 exhausted the retries
C1_Witness ==
  \E i \in Invocations :
    /\ Received(i, 503)
    /\ task[i].pc = "raised"
    /\ config.maxAttempts >= 2
    /\ task[i].fetches = config.maxAttempts
    /\ IsExhausted(task[i].raised)
    /\ EmbedsTimeout(task[i].raised)

IsMethodNotFound(err) ==
  /\ err.name = "EthereumRpcError"
  /\ err.code = Num(-32601)
  /\ err.message = <<"The", "method", "does", "not", "exist", "/", "is", "not", "available", ".">>

\* C2: an attempt that receives 405 raises MethodNotFound at once: no timer is
\* started and no HTTP call follows, so the calls made are those up to this
\* attempt; on the first attempt that is one call and no delay.
C2_MethodNotFoundImmediately ==
  /\ [](\A i \in Invocations :
          Received(i, 405) =>
            /\ task[i].pc = "raised"
            /\ IsMethodNotFound(task[i].raised)
            /\ task[i].timer = 0
            /\ task[i].fetches = task[i].attempt
            /\ task[i].delays = task[i].attempt - 1
            /\ task[i].attempt = 1 => (task[i].fetches = 1 /\ task[i].delays = 0))
  /\ [][Terminal]_vars

\* a 405 on the first attempt of a middleware that allows more
C2_Witness ==
  \E i \in Invocations :
    /\ Received(i, 405)
    /\ task[i].pc = "raised"
    /\ task[i].attempt = 1
    /\ task[i].fetches = 1
    /\ config.maxAttempts > 1

\* C3: construction throws for every opts whose projectId is missing or not a
\* string and for every opts whose maxAttempts is zero or negative, and after
\* it threw no request is processed and no HTTP call is made.
C3_BadConfigRejected ==
  [][/\ (/\ phase = "init"
         /\ phase' # "init"
         /\ \/ opts.projectId.t # "string"
            \/ (opts.maxAttempts.t = "number" /\ opts.maxAttempts.n <= 0))
        => phase' = "threw"
     /\ phase' = "threw" => \A i \in Invocations : task'[i] = NoTask
    ]_vars

IsRatelimit(err) ==
  /\ err.name = "EthereumRpcError"
  /\ err.message = <<"Request", "is", "being", "rate", "limited", ".">>

\* C4 as claimed: an attempt that receives 429 while attempts remain is
\* retried: it leads to the delay.
C4_RatelimitRetried ==
  \A i \in Invocations :
    (Received(i, 429) /\ task[i].attempt < config.maxAttempts) => task[i].pc = "delay"

\* C4 amended: an attempt that receives 429 produces the rate-limit error with
\* message "Request is being rate limited."; its printed form holds none of
\* the retriable phrases, so it is raised at once, unwrapped, with no delay
\* and no further HTTP call, whether or not attempts remain.
C4_RatelimitRaised ==
  /\ [](\A i \in Invocations :
          Received(i, 429) =>
            /\ task[i].pc = "raised"
            /\ IsRatelimit(task[i].raised)
            /\ \A m \in Markers : ~Includes(ErrToString(task[i].raised), m)
            /\ task[i].timer = 0
            /\ task[i].fetches = task[i].attempt
            /\ task[i].delays = task[i].attempt - 1)
  /\ [][Terminal]_vars

\* a 429 raised on the first attempt although attempts remained
C4_Witness ==
  \E i \in Invocations :
    /\ Received(i, 429)
    /\ task[i].pc = "raised"
    /\ IsRatelimit(task[i].raised)
    /\ task[i].attempt < config.maxAttempts
    /\ task[i].delays = 0

\* C5: until an attempt succeeds the holder is what it was at invocation: no
\* failed attempt writes it, and it is untouched when the handler has raised.
C5_HolderUntouchedOnFailure ==
  \A i \in Invocations :
    task[i].pc \in {"fetch", "text", "delay", "raised"} => res[i] = res0[i]

\* raised after failed attempts, with a holder that held something
C5_Witness ==
  \E i \in Invocations :
    /\ task[i].pc = "raised"
    /\ task[i].fetches >= 2
    /\ "result" \in DOMAIN res[i]
    /\ res[i] = res0[i]

Populated(o, k) == k \in DOMAIN o /\ o[k] # Undef

\* the handler returned after an attempt that succeeded
Succeeded(i) == task[i].pc = "returned" /\ task[i].branch # "none"

\* C6 as claimed: after a successful attempt the holder never has both result
\* and error populated.
C6_NeverBothPopulated ==
  \A i \in Invocations :
    Succeeded(i) => ~(Populated(res[i], "result") /\ Populated(res[i], "error"))

DataHas(data, k) == data.t = "object" /\ k \in DOMAIN data.o

\* C6 amended: a successful attempt writes one shape per dialect.  REST: only
\* result is written, every other field is as it was at invocation.  JSON-RPC:
\* result and error are both set from the decoded body, so the holder ends
\* with both populated exactly when the body carries both.
C6_OneShapePerDialect ==
  \A i \in Invocations :
    Succeeded(i) =>
      /\ task[i].branch \in {"rest", "jsonrpc"}
      /\ task[i].branch = "rest" =>
           /\ "result" \in DOMAIN res[i]
           /\ DOMAIN res[i] = DOMAIN res0[i] \cup {"result"}
           /\ \A k \in DOMAIN res0[i] \ {"result"} : res[i][k] = res0[i][k]
      /\ task[i].branch = "jsonrpc" =>
           /\ {"result", "error"} \subseteq DOMAIN res[i]
           /\ Populated(res[i], "result") <=> DataHas(task[i].data, "result")
           /\ Populated(res[i], "error") <=> DataHas(task[i].data, "error")
           /\ DataHas(task[i].data, "result") => res[i].result = task[i].data.o.result
           /\ DataHas(task[i].data, "error") => res[i].error = task[i].data.o.error

\* a JSON-RPC body with result and error left both in a fresh holder
C6_Witness ==
  \E i \in Invocations :
    /\ Succeeded(i)
    /\ task[i].branch = "jsonrpc"
    /\ res0[i] = FreshHolder
    /\ Populated(res[i], "result")
    /\ Populated(res[i], "error")

\* C7: every error the handler raises carries a code and a message.
C7_RaisedHasCodeAndMessage ==
  \A i \in Invocations :
    task[i].pc = "raised" =>
      (task[i].raised.code # Undef /\ task[i].raised.message # <<>>)

\* C8: the call is a body-less GET exactly for the networks of the REST set
\* and a POST with a body for every other network, and a successful attempt
\* is reshaped by the REST rules exactly when its call was the GET, copied
\* through exactly when it was the POST.
C8_DialectsAgree ==
  \A i \in Invocations :
    /\ task[i].call # NoCall =>
         /\ (task[i].call.method = "GET" /\ ~task[i].call.hasBody)
              <=> (config.network = Str("devnet"))
         /\ (task[i].call.method = "POST" /\ task[i].call.hasBody)
              <=> (config.network # Str("devnet"))
    /\ Succeeded(i) =>
         /\ task[i].branch = "rest" <=> task[i].call.method = "GET"
         /\ task[i].branch = "jsonrpc" <=> task[i].call.method = "POST"

\* a REST call answered and reshaped by the REST rules
C8_Witness ==
  \E i \in Invocations :
    /\ Succeeded(i)
    /\ task[i].call.method = "GET"
    /\ task[i].branch = "rest"
    /\ config.network = Str("devnet")

CanonicalKeys == {"id", "jsonrpc", "method", "params"}

\* C9 as claimed: the POST body decodes to an object with exactly the four
\* keys, each with the request's value.
C9_ExactlyFourKeys ==
  \A i \in Invocations :
    task[i].call.method = "POST" =>
      LET d == JSONparse(task[i].call.body)
      IN /\ d.ok
         /\ d.v.t = "object"
         /\ DOMAIN d.v.o = CanonicalKeys
         /\ \A k \in CanonicalKeys : d.v.o[k] = Get(req[i], k)

\* C9 amended: the POST body decodes to an object with no key outside id,
\* jsonrpc, method, params; each of the four that the request defines is there
\* with the request's value, and one the request leaves undefined is absent.
C9_OnlyCanonicalKeys ==
  \A i \in Invocations :
    task[i].call.method = "POST" =>
      LET d == JSONparse(task[i].call.body)
      IN /\ task[i].call.hasBody
         /\ d.ok
         /\ d.v.t = "object"
         /\ DOMAIN d.v.o \subseteq CanonicalKeys
         /\ \A k \in CanonicalKeys :
              IF Get(req[i], k) = Undef THEN k \notin DOMAIN d.v.o
              ELSE k \in DOMAIN d.v.o /\ d.v.o[k] = req[i][k]

\* a request with origin and extra was sent with its four fields only
C9_Witness ==
  \E i \in Invocations :
    /\ task[i].call.method = "POST"
    /\ {"origin", "extra", "params"} \subseteq DOMAIN req[i]
    /\ DOMAIN JSONparse(task[i].call.body).v.o = CanonicalKeys

RestBase == "https://fullnode.devnet.aptoslabs.com/v1/"

\* the first parameter as it prints in the URL
ParamText(r) ==
  IF "params" \in DOMAIN r /\ Len(r.params.a) >= 1 THEN r.params.a[1].s ELSE "undefined"

\* C10: in the REST dialect the call is a GET without body whose URL is the
\* base URL followed by the one sub-path of the request's method, or the base
\* URL itself for every other method.
C10_RestUrl ==
  \A i \in Invocations :
    (config.network = Str("devnet") /\ task[i].call # NoCall) =>
      /\ task[i].call.method = "GET"
      /\ ~task[i].call.hasBody
      /\ task[i].call.body = <<>>
      /\ task[i].call.url =
           CASE req[i].method = Str("state.list_resource") ->
                  RestBase \o "accounts/" \o ParamText(req[i]) \o "/resources"
             [] req[i].method = Str("getAccount") ->
                  RestBase \o "accounts/" \o ParamText(req[i])
             [] req[i].method = Str("chain.get_transaction_info") ->
                  RestBase \o "transactions/by_hash/" \o ParamText(req[i])
             [] OTHER -> RestBase

\* getAccount with params ["0xabc"] went to accounts/0xabc, an unrecognized
\* method to the base URL
C10_Witness ==
  \E i \in Invocations :
    /\ task[i].pc = "fetch"
    /\ \/ /\ req[i].method = Str("getAccount")
          /\ task[i].call.url = "https://fullnode.devnet.aptoslabs.com/v1/accounts/0xabc"
       \/ /\ req[i].method = Str("chain.get_block_by_number")
          /\ task[i].call.url = RestBase

\* Number() of the block heights that occur
Numeric(v) ==
  CASE v = Str("42") -> Num(42)
    [] v = Undef -> NaN
    [] OTHER -> v

\* C11: a successful REST attempt sets result by the request's method:
\* chain.id gives {id: body.chain_id, name: network}, chain.info gives
\* {head: {number: Number(body.block_height)}}, every other method the decoded
\* body itself; error is never written.
C11_RestResult ==
  \A i \in Invocations :
    (Succeeded(i) /\ config.network = Str("devnet")) =>
      LET data == task[i].data
          field(k) == IF DataHas(data, k) THEN data.o[k] ELSE Undef
      IN /\ res[i].result =
              CASE req[i].method = Str("chain.id") ->
                     Obj([id |-> field("chain_id"), name |-> Str("devnet")])
                [] req[i].method = Str("chain.info") ->
                     Obj([head |-> Obj([number |-> Numeric(field("block_height"))])])
                [] OTHER -> data
         /\ ("error" \in DOMAIN res[i]) <=> ("error" \in DOMAIN res0[i])
         /\ "error" \in DOMAIN res0[i] => res[i].error = res0[i].error

\* chain.id answered {chain_id: 7, ...} on devnet gave {id: 7, name: "devnet"},
\* chain.info answered block_height "42" gave the number 42
C11_Witness ==
  \E i \in Invocations :
    /\ Succeeded(i)
    /\ \/ /\ req[i].method = Str("chain.id")
          /\ res[i].result = Obj([id |-> Num(7), name |-> Str("devnet")])
       \/ /\ req[i].method = Str("chain.info")
          /\ res[i].result = Obj([head |-> Obj([number |-> Num(42)])])

\* C12: in both dialects the headers of the call are the extra headers, with
\* Accept and Content-Type set to application/json, and a Source header
\* exactly when a source tag is configured, "<source>/<origin>" with
\* "internal" for a request without origin.
C12_Headers ==
  \A i \in Invocations :
    task[i].call # NoCall =>
      LET h == task[i].call.headers
      IN /\ DOMAIN h = DOMAIN config.headers \cup {"Accept", "Content-Type"}
                        \cup (IF config.source = Undef THEN {} ELSE {"Source"})
         /\ h["Accept"] = Str("application/json")
         /\ h["Content-Type"] = Str("application/json")
         /\ \A k \in DOMAIN config.headers \ {"Accept", "Content-Type"} :
              h[k] = config.headers[k]
         /\ config.source # Undef =>
              h["Source"] =
                IF "origin" \in DOMAIN req[i]
                THEN Str(config.source.s \o "/" \o req[i].origin.s)
                ELSE Str(config.source.s \o "/internal")

\* extra headers that hold an Accept of their own, a source tag, and a
\* request with and without origin
C12_Witness ==
  \E i \in Invocations :
    /\ task[i].pc = "fetch"
    /\ "X-Key" \in DOMAIN config.headers
    /\ "Accept" \in DOMAIN config.headers
    /\ task[i].call.headers["X-Key"] = Str("k")
    /\ "Source" \in DOMAIN task[i].call.headers
    /\ task[i].call.headers["Source"] \in {Str("wallet/internal"), Str("wallet/dapp.example")}

\* the printed form of the error holds one of the retriable phrases
HasMarker(err) == \E m \in Markers : Includes(ErrToString(err), m)

\* the raised error is the 'retries exhausted' wrapping of err
Wraps(raised, err) ==
  /\ IsExhausted(raised)
  /\ raised # err
  /\ Includes(raised.message, <<"Original", "Error", ":", "\n">> \o ErrToString(err))

\* C13: an error without retriable phrase caught on attempt k is raised as
\* it is, unwrapped; an error with one caught on an attempt before the last is
\* not raised, the delay follows; the only wrapped error raised is 'retries
\* exhausted', and only for an error with a retriable phrase caught on attempt
\* maxAttempts; so at most maxAttempts - 1 errors are swallowed.
C13_PropagationPolicy ==
  \A i \in Invocations :
    LET t == task[i]
    IN /\ t.pc = "raised" =>
            /\ t.caught # NoError
            /\ t.fetches <= t.attempt
            /\ IF HasMarker(t.caught)
               THEN t.attempt = config.maxAttempts /\ Wraps(t.raised, t.caught)
               ELSE t.raised = t.caught
       /\ t.pc = "delay" =>
            /\ HasMarker(t.caught)
            /\ t.attempt < config.maxAttempts
            /\ t.raised = NoError
       /\ t.pc \in {"idle", "fetch", "text", "returned"} => t.raised = NoError
       /\ t.delays > 0 => t.delays <= config.maxAttempts - 1

\* an error without retriable phrase raised unwrapped on a later attempt,
\* after the errors before it were swallowed
C13_Witness ==
  \E i \in Invocations :
    /\ task[i].pc = "raised"
    /\ task[i].attempt >= 2
    /\ task[i].attempt < config.maxAttempts
    /\ ~HasMarker(task[i].caught)
    /\ task[i].raised = task[i].caught

\* C14: once an attempt has succeeded the handler has returned: nothing is
\* raised, no timer runs, the HTTP calls and delays are those up to the
\* successful attempt, and the task takes no further step.
C14_SuccessEndsLoop ==
  /\ [](\A i \in Invocations :
          task[i].branch # "none" =>
            /\ task[i].pc = "returned"
            /\ task[i].raised = NoError
            /\ task[i].timer = 0
            /\ task[i].fetches = task[i].attempt
            /\ task[i].delays = task[i].attempt - 1
            /\ task[i].attempt <= config.maxAttempts)
  /\ [][Terminal]_vars

\* success on a later attempt, after failed ones
C14_Witness ==
  \E i \in Invocations :
    /\ Succeeded(i)
    /\ task[i].attempt >= 2
    /\ task[i].attempt < config.maxAttempts
    /\ task[i].delays = task[i].attempt - 1

\* a step of invocation i that calls fetch
CallsFetch(i) == task'[i].fetches # task[i].fetches

\* C15: attempts are sequential and separated by the one fixed delay: HTTP
\* call k + 1 is made only when the timer of 1000 started by the retriable
\* failure of attempt k fires; a timer runs only in the delay and is 1000
\* whatever the attempt; none runs before the first attempt or after the
\* handler ended; a request takes at most maxAttempts - 1 delays.
C15_SequentialFixedDelay ==
  /\ [](\A i \in Invocations :
          /\ Sequential(i)
          /\ task[i].pc = "delay" <=> task[i].timer # 0
          /\ task[i].timer \in {0, 1000}
          /\ task[i].pc \in {"raised", "returned"} => task[i].delays = task[i].attempt - 1
          /\ task[i].delays > 0 => task[i].delays <= config.maxAttempts - 1)
  /\ [][\A i \in Invocations :
          /\ CallsFetch(i) =>
               /\ task'[i].fetches = task[i].fetches + 1
               /\ task'[i].pc = "fetch"
               /\ IF task[i].fetches = 0 THEN task[i].pc = "idle"
                  ELSE /\ task[i].pc = "delay"
                       /\ task[i].timer = 1000
                       /\ HasMarker(task[i].caught)
                       /\ task'[i].delays = task[i].delays
          /\ (task[i].timer = 0 /\ task'[i].timer # 0) => task[i].pc \in {"fetch", "text"}
          /\ task[i].pc \in {"fetch", "text"} => ~CallsFetch(i)
       ]_vars

\* the delay after the second failed attempt is the same 1000
C15_Witness ==
  \E i \in Invocations :
    /\ task[i].pc = "delay"
    /\ task[i].attempt >= 2
    /\ task[i].delays = 2
    /\ task[i].timer = 1000

\* the attempt that just ended received a 2xx response whose text did not parse
ParseFailed(i) == Received(i, 200) /\ task[i].data = Undef

\* C16: a 2xx response whose body is not JSON ends the attempt with a
\* SyntaxError, whose printed form holds the phrase "SyntaxError"; it is
\* retried while attempts remain and becomes 'retries exhausted' on the last
\* attempt, and the holder is not written.
C16_ParseFailureRetried ==
  \A i \in Invocations :
    ParseFailed(i) =>
      /\ task[i].caught.name = "SyntaxError"
      /\ Includes(ErrToString(task[i].caught), <<"SyntaxError">>)
      /\ task[i].pc \in {"delay", "raised"}
      /\ task[i].pc = "delay" <=> task[i].attempt < config.maxAttempts
      /\ task[i].pc = "raised" =>
           /\ IsExhausted(task[i].raised)
           /\ Includes(task[i].raised.message, <<"SyntaxError", ":">>)
      /\ res[i] = res0[i]

\* a body that is not JSON on every attempt up to the last
C16_Witness ==
  \E i \in Invocations :
    /\ ParseFailed(i)
    /\ task[i].pc = "raised"
    /\ task[i].attempt >= 2
    /\ IsExhausted(task[i].raised)

\* C17: an error is retried (or, on the last attempt, turned into 'retries
\* exhausted') exactly when its printed form holds one of the four phrases,
\* whatever the status; a status other than 2xx, 405, 429, 503, 504 gives an
\* internal error whose message is the body text, retried exactly when that
\* text holds a phrase and raised at once otherwise.
C17_PhraseBased ==
  \A i \in Invocations :
    /\ task[i].caught # NoError =>
         /\ (task[i].pc = "delay" \/ IsExhausted(task[i].raised)) <=> HasMarker(task[i].caught)
         /\ ~HasMarker(task[i].caught) =>
              (task[i].pc = "raised" /\ task[i].raised = task[i].caught /\ task[i].timer = 0)
    /\ Received(i, 404) =>
         /\ task[i].caught.name = "EthereumRpcError"
         /\ task[i].caught.code = Num(-32603)
         /\ task[i].caught.message \in
              (BodyTexts \ {<<>>}) \cup {<<"Internal", "JSON-RPC", "error", ".">>}
         /\ task[i].pc \in {"delay", "raised"}
         /\ (task[i].pc = "delay" \/ IsExhausted(task[i].raised))
              <=> \E m \in Markers : Includes(task[i].caught.message, m)

\* a 404 whose body text holds "Gateway timeout" was retried
C17_Witness ==
  \E i \in Invocations :
    /\ Received(i, 404)
    /\ task[i].pc = "delay"
    /\ Includes(task[i].caught.message, <<"Gateway", "timeout">>)

\* what invocation i holds: its request, its holder, its activation
Own(i) == <<req[i], res[i], res0[i], task[i]>>

\* the holder of invocation i is as the engine handed it over, or as the
\* successful attempt of this invocation wrote it from its own response
OwnHolder(i) ==
  IF Succeeded(i)
  THEN \E rawData \in ConcBodyTexts :
         LET out == PerformFetchTail(config.network, req[i], res0[i], task[i].status, rawData)
         IN ~out.threw /\ out.res = res[i] /\ out.data = task[i].data
  ELSE res[i] = res0[i]

\* the HTTP call of invocation i is made from its own request
OwnCall(i) ==
  task[i].pc \in {"fetch", "text"} =>
    LET fc == fetchConfigFromReq(config.network, config.projectId, config.headers,
                                 req[i], config.source)
    IN ~fc.threw /\ task[i].call = fc.call

\* C18: with two invocations of one handler in progress, under every
\* interleaving of their HTTP calls, body reads and delays: a step changes
\* the request, holder and activation of at most one invocation; the holder
\* of an invocation is written from its own request and response only; its
\* attempt counter counts its own HTTP calls; and the configuration is not
\* modified once the handler is constructed.
C18_Independent ==
  /\ [](\A i \in Invocations : OwnHolder(i) /\ OwnCall(i) /\ Sequential(i))
  /\ [][/\ phase = "constructed" => (config' = config /\ phase' = phase)
        /\ \A i, j \in Invocations :
             (i # j /\ Own(i)' # Own(i)) => Own(j)' = Own(j)
        /\ \A i \in Invocations :
             task[i].pc # "idle" => (req'[i] = req[i] /\ res0'[i] = res0[i])
       ]_vars

\* one invocation has succeeded on its first attempt while the other, invoked
\* with another request and holder, is in its second attempt
C18_Witness ==
  \E i, j \in Invocations :
    /\ i # j
    /\ Succeeded(i) /\ task[i].attempt = 1
    /\ task[j].pc = "text" /\ task[j].attempt = 2
    /\ req[i] # req[j]
    /\ res[i] # res[j]
    /\ res[j] = res0[j]

\* C19: the handler of a constructed middleware ends after at least one and
\* at most maxAttempts attempts, in one of two ways: the last attempt
\* succeeded and wrote the holder and nothing is raised, or an error is
\* raised; it never returns without a successful attempt.
C19_EndsOneOfTwoWays ==
  \A i \in Invocations :
    /\ task[i].pc \in {"returned", "raised"} =>
         (1 <= task[i].attempt /\ task[i].attempt <= config.maxAttempts)
    /\ task[i].pc = "returned" =>
         (task[i].branch # "none" /\ task[i].raised = NoError /\ task[i].fetches >= 1)
    /\ task[i].pc = "raised" =>
         (task[i].raised # NoError /\ task[i].branch = "none")

\* the attempt that just ended received, in the JSON-RPC dialect, a 2xx
\* response whose decoded body has an error member
UpstreamError(i) ==
  /\ Received(i, 200)
  /\ ~IsRestResponse(config.network)
  /\ DataHas(task[i].data, "error")

\* C20: in the JSON-RPC dialect a 2xx response whose body carries an error
\* member is a successful attempt: the handler has returned, nothing is caught
\* or raised, no delay or further HTTP call follows, whatever the text of the
\* upstream error; holder.error and holder.result are both set to the body's
\* values, undefined included, and the other fields of the holder are kept.
C20_UpstreamErrorIsSuccess ==
  \A i \in Invocations :
    UpstreamError(i) =>
      /\ task[i].pc = "returned"
      /\ task[i].branch = "jsonrpc"
      /\ task[i].caught = NoError
      /\ task[i].raised = NoError
      /\ task[i].timer = 0
      /\ task[i].fetches = task[i].attempt
      /\ {"result", "error"} \subseteq DOMAIN res[i]
      /\ res[i]["error"] = GetProp(task[i].data, "error")
      /\ res[i]["result"] = GetProp(task[i].data, "result")
      /\ \A k \in DOMAIN res0[i] \ {"result", "error"} :
           k \in DOMAIN res[i] /\ res[i][k] = res0[i][k]

\* a body with only an error whose message is a retriable phrase, received
\* with a holder that already had a result: the result is now undefined
C20_Witness ==
  \E i \in Invocations :
    /\ UpstreamError(i)
    /\ Succeeded(i)
    /\ GetProp(GetProp(task[i].data, "error"), "message") = Str("ETIMEDOUT")
    /\ ~DataHas(task[i].data, "result")
    /\ Populated(res0[i], "result")
    /\ res[i]["result"] = Undef
    /\ Populated(res[i], "error")

====
